---- MODULE Spec2Model ----
(***************************************************************************)
(* A model of the Road-Learning-Tool scripts:                              *)
(*   scripts/extract_roads.py and scripts/build_road_catalog.py.           *)
(*                                                                         *)
(* Part I models iter_features, the incremental decoder of the `features`  *)
(* array (the same text in both scripts), as a state machine over a        *)
(* character stream that is read in chunks.  Text is a sequence of         *)
(* one-character strings.  Indices are 1-based; where Python returns -1    *)
(* for "not found" the model returns 0.  Part II models is_road,           *)
(* trim_properties and extract_roads.main, Part III                        *)
(* build_road_catalog.main; both mains see iter_features as a generator    *)
(* whose next() hands over a feature, ends, or raises.                     *)
(***************************************************************************)
EXTENDS Integers, Sequences, FiniteSets, TLC

\* ---------------------------------------------------------------- bounds

\* Largest small chunk size tried (every size 1..MaxChunk is tried, and
\* the program's own CHUNK_SIZE).
MaxChunk == 12
\* Largest number of blanks put before the marker (the preamble).
MaxPre == 12
\* Largest number of blanks put between the marker's colon and the `[`.
MaxGap == 12
\* The count of reads at end of stream saturates here.
MaxEofReads == 2

\* ------------------------------------------------------- program constants

CHUNK_SIZE == 1048576

Marker == <<"\"", "f", "e", "a", "t", "u", "r", "e", "s", "\"">>

\* The characters buffer.lstrip(" \t\r\n,") removes.
StripChars == {" ", "\t", "\r", "\n", ","}

\* ------------------------------------------------------------ text helpers

Min(a, b) == IF a < b THEN a ELSE b

\* s[i..] (1-based), Python's s[i-1:].
Drop(s, i) == SubSeq(s, i, Len(s))

\* Fault variant of LastN: an over-long text is dropped whole.
LastNone(s, n) == IF Len(s) > n THEN <<>> ELSE s

\* Fault variant of LastN: s[:n], the first n characters.
FirstN(s, n) == IF Len(s) > n THEN SubSeq(s, 1, n) ELSE s

\* Python's s[-n:] for n >= 1.
LastN(s, n) == IF Len(s) > n THEN SubSeq(s, Len(s) - n + 1, Len(s)) ELSE s

\* pat occurs in s at index i.
OccursAt(s, pat, i) ==
    /\ i >= 1
    /\ i + Len(pat) - 1 <= Len(s)
    /\ \A k \in 1..Len(pat) : s[i + k - 1] = pat[k]

\* str.find(pat, from): the lowest index >= from where pat occurs, 0 if none.
Find(s, pat, from) ==
    LET hits == {i \in from..Len(s) : OccursAt(s, pat, i)}
    IN  IF hits = {} THEN 0 ELSE CHOOSE i \in hits : \A j \in hits : i <= j

\* str.lstrip(chars): the index of the first character not in chars
\* (Len(s) + 1 when there is none).
FirstNotIn(s, chars, from) ==
    LET stops == {i \in from..Len(s) : s[i] \notin chars}
    IN  IF stops = {} THEN Len(s) + 1
        ELSE CHOOSE i \in stops : \A j \in stops : i <= j

Lstrip(s) == Drop(s, FirstNotIn(s, StripChars, 1))

\* ------------------------------------------------- json.JSONDecoder.raw_decode
(***************************************************************************)
(* The standard decoder on the JSON the model's streams can hold: objects, *)
(* arrays, strings without escapes or control characters, unsigned         *)
(* integers and the literal true.  A scan returns [st, end]: st = "ok"     *)
(* with end the index after the value; st = "eof" when the scan ran off    *)
(* the end of the text (the text is a proper prefix of a value); st =      *)
(* "bad" when a character that cannot continue a value was met.  Python    *)
(* raises JSONDecodeError for "eof" and "bad" alike.                       *)
(***************************************************************************)

JsonWs == {" ", "\t", "\n", "\r"}
Digits == {"0", "1", "2", "3", "4", "5", "6", "7", "8", "9"}
TrueLit == <<"t", "r", "u", "e">>

Ok(e) == [st |-> "ok", end |-> e]
Eof(e) == [st |-> "eof", end |-> e]
Bad(e) == [st |-> "bad", end |-> e]

\* WHITESPACE.match(s, i).end()
SkipWs(s, i) == FirstNotIn(s, JsonWs, i)

\* scanstring(s, i), i the index after the opening quote.
scanstring(s, i) ==
    LET q == Find(s, <<"\"">>, i)
    IN  IF q = 0 THEN Eof(Len(s) + 1) ELSE Ok(q + 1)

\* NUMBER_RE.match(s, i): (0|[1-9]\d*), the longest match.
match_number(s, i) ==
    IF s[i] = "0" THEN Ok(i + 1) ELSE Ok(FirstNotIn(s, Digits, i))

\* s[i:i+4] == 'true'
match_true(s, i) ==
    IF OccursAt(s, TrueLit, i) THEN Ok(i + 4)
    ELSE IF \A k \in 1..Min(4, Len(s) - i + 1) : s[i + k - 1] = TrueLit[k]
         THEN Eof(Len(s) + 1)
         ELSE Bad(i)

RECURSIVE scan_once(_, _), JSONObjectPairs(_, _), JSONArrayItems(_, _)

\* One "key": value pair and what follows it; s[j] is the key's opening quote.
JSONObjectPairs(s, j) ==
    LET key == scanstring(s, j + 1)
        c   == SkipWs(s, key.end)
    IN  IF key.st # "ok" THEN key
        ELSE IF c > Len(s) THEN Eof(c)
        ELSE IF s[c] # ":" THEN Bad(c)
        ELSE LET v == scan_once(s, SkipWs(s, c + 1))
                 d == SkipWs(s, v.end)
                 e == SkipWs(s, d + 1)
             IN  IF v.st # "ok" THEN v
                 ELSE IF d > Len(s) THEN Eof(d)
                 ELSE IF s[d] = "}" THEN Ok(d + 1)
                 ELSE IF s[d] # "," THEN Bad(d)
                 ELSE IF e > Len(s) THEN Eof(e)
                 ELSE IF s[e] # "\"" THEN Bad(e)
                 ELSE JSONObjectPairs(s, e)

\* JSONObject(s, i), i the index after the `{`.
JSONObject(s, i) ==
    LET j == SkipWs(s, i)
    IN  IF j > Len(s) THEN Eof(j)
        ELSE IF s[j] = "}" THEN Ok(j + 1)
        ELSE IF s[j] # "\"" THEN Bad(j)
        ELSE JSONObjectPairs(s, j)

\* One array item and what follows it; i is where the item starts.
JSONArrayItems(s, i) ==
    LET v == scan_once(s, i)
        d == SkipWs(s, v.end)
    IN  IF v.st # "ok" THEN v
        ELSE IF d > Len(s) THEN Eof(d)
        ELSE IF s[d] = "]" THEN Ok(d + 1)
        ELSE IF s[d] # "," THEN Bad(d)
        ELSE JSONArrayItems(s, SkipWs(s, d + 1))

\* JSONArray(s, i), i the index after the `[`.
JSONArray(s, i) ==
    LET j == SkipWs(s, i)
    IN  IF j > Len(s) THEN Eof(j)
        ELSE IF s[j] = "]" THEN Ok(j + 1)
        ELSE JSONArrayItems(s, j)

scan_once(s, i) ==
    IF i > Len(s) THEN Eof(i)
    ELSE IF s[i] = "\"" THEN scanstring(s, i + 1)
    ELSE IF s[i] = "{" THEN JSONObject(s, i + 1)
    ELSE IF s[i] = "[" THEN JSONArray(s, i + 1)
    ELSE IF s[i] = "t" THEN match_true(s, i)
    ELSE IF s[i] \in Digits THEN match_number(s, i)
    ELSE Bad(i)

\* The decoded value: the value's text with the blanks between its tokens
\* removed (two texts decode to the same value iff these are equal, for
\* the JSON above without duplicate keys).
RECURSIVE Decoded(_, _, _)
Decoded(s, i, inString) ==
    IF i > Len(s) THEN <<>>
    ELSE IF s[i] = "\"" THEN <<s[i]>> \o Decoded(s, i + 1, ~inString)
    ELSE IF ~inString /\ s[i] \in JsonWs THEN Decoded(s, i + 1, inString)
    ELSE <<s[i]>> \o Decoded(s, i + 1, inString)

\* decoder.raw_decode(buffer): ok = FALSE stands for JSONDecodeError.
raw_decode(buffer) ==
    LET r == scan_once(buffer, 1)
    IN  IF r.st = "ok"
        THEN [ok |-> TRUE, consumed |-> r.end - 1,
              feature |-> Decoded(SubSeq(buffer, 1, r.end - 1), 1, FALSE)]
        ELSE [ok |-> FALSE, consumed |-> 0, feature |-> <<>>]


\* ------------------------------------------------------------ the inputs
(***************************************************************************)
(* The streams the decoder is run on.  A document is                       *)
(*     {  <pre blanks>  "features"  :  <gap blanks>  [  <body>             *)
(* and a body holds the array's elements, its `]` and what follows.        *)
(* Truncated streams are the prefixes of documents.                        *)
(***************************************************************************)

\* ]}
BodyEmpty ==
    <<"]", "}">>
\* {}]}
BodyOne ==
    <<"{", "}", "]", "}">>
\* {"a":12},{}]}
BodyTwo ==
    <<"{", "\"", "a", "\"", ":", "1", "2", "}", ",", "{", "}", "]", "}">>
\* {"a":"]"} ,{"b":[1,{}]}]}
BodyNested ==
    <<"{", "\"", "a", "\"", ":", "\"", "]", "\"", "}", " ", ",", "{", "\"",
      "b", "\"", ":", "[", "1", ",", "{", "}", "]", "}", "]", "}">>
\* {}],{}]
BodyTrailer ==
    <<"{", "}", "]", ",", "{", "}", "]">>
\* {"a"1},{}]}     (malformed inside the first value)
BodyNoColon ==
    <<"{", "\"", "a", "\"", "1", "}", ",", "{", "}", "]", "}">>
\* {},x,{}]}       (malformed at the start of the second value)
BodyJunk ==
    <<"{", "}", ",", "x", ",", "{", "}", "]", "}">>
\* {} , {"a":true}]}
BodySpaced ==
    <<"{", "}", " ", ",", " ", "{", "\"", "a", "\"", ":", "t", "r", "u",
      "e", "}", "]", "}">>
\* {"a":[{}]}      (a document with no features key)
NoFeatures ==
    <<"{", "\"", "a", "\"", ":", "[", "{", "}", "]", "}">>

\* {"a":[],"features":[{}]}   (a `[` before the marker)
BracketFirst ==
    <<"{", "\"", "a", "\"", ":", "[", "]", ",">> \o Marker
        \o <<":", "[", "{", "}", "]", "}">>

Bodies ==
    {BodyEmpty, BodyOne, BodyTwo, BodyNested, BodyTrailer, BodyNoColon,
     BodyJunk, BodySpaced}

Pad(n) == [i \in 1..n |-> " "]

Doc(pre, gap, body) ==
    <<"{">> \o Pad(pre) \o Marker \o <<":">> \o Pad(gap) \o <<"[">> \o body

Prefixes(s) == {SubSeq(s, 1, n) : n \in 0..Len(s)}

Inputs ==
    {Doc(pre, 0, BodyOne) : pre \in 0..MaxPre}
        \cup {Doc(0, gap, BodyOne) : gap \in 0..MaxGap}
        \cup UNION {Prefixes(Doc(0, 0, body)) : body \in Bodies}
        \cup Prefixes(NoFeatures)
        \cup Prefixes(BracketFirst)

ChunkSizes == (1..MaxChunk) \cup {CHUNK_SIZE}

\* ------------------------------------------------------------- the state

VARIABLES
    stream,      \* the whole text of the input file
    chunk_size,  \* CHUNK_SIZE of this run
    pos,         \* the handle's read position: characters read so far
    handle,      \* "unopened", "open" or "closed"
    opens,       \* how many times open_input was called
    buffer,      \* iter_features' buffer
    pc,          \* where iter_features is: "start", "locate", "decode",
                 \* "yield" (suspended at the yield), "done" (the sequence
                 \* ended), "raised" (an exception left the generator),
                 \* "closed" (the consumer closed the generator)
    err,         \* the exception raised, "none" if none
    yielded,     \* the features yielded so far, in order
    eof_reads,   \* reads that returned "" (saturating at MaxEofReads)
    peak,        \* the length of the longest text `buffer` was bound to
                 \* during the last step
    \* extract_roads.main (Part II)
    argc,        \* len(sys.argv)
    mpc,         \* where main is: "start", "loop" (at the for statement),
                 \* "body" (in the loop body), "exit0" and "exit1" (it
                 \* returned 0, 1), "failed" (an exception left main);
                 \* "idle" when main is not modelled
    feature,     \* the feature the for loop bound last
    fetched,     \* how many features iter_features has yielded to main
    verdict,     \* what is_road gave for `feature`, "none" before the call
    stdout,      \* the lines written to standard output, in order
    exc,         \* the exception that left main, "none" if none
    \* build_road_catalog.main (Part III)
    names,       \* the set `names`
    refs,        \* the set `refs`
    output_file, \* what the file at output_path holds, NoFile while the
                 \* run has not opened it
    file_writes, \* how many times the run opened output_path for writing
    seen         \* the features the loop of build_road_catalog.main has
                 \* taken from iter_features so far, in order

dvars ==
    <<stream, chunk_size, pos, handle, opens, buffer, pc, err, yielded,
      eof_reads, peak>>

mvars == <<argc, mpc, feature, fetched, verdict, stdout, exc>>

cvars == <<names, refs, output_file, file_writes, seen>>

vars == <<dvars, mvars, cvars>>

Terminal == {"done", "raised", "closed"}

DecoderInit ==
    /\ stream \in Inputs
    /\ chunk_size \in ChunkSizes
    /\ pos = 0
    /\ handle = "unopened"
    /\ opens = 0
    /\ buffer = <<>>
    /\ pc = "start"
    /\ err = "none"
    /\ yielded = <<>>
    /\ eof_reads = 0
    /\ peak = 0

\* handle.read(n) at position p: the next n characters, fewer at the end of
\* the stream, "" once it is exhausted.
read(s, p, n) == SubSeq(s, p + 1, Min(p + n, Len(s)))

\* Fault variant of HandleAfter: the handle is closed only after the loop.
HandleAfterLeaks(next_pc) == IF next_pc = "done" THEN "closed" ELSE "open"

\* The `with open_input(path) as handle:` block: the handle is closed when
\* control leaves the block, however it leaves.
HandleAfter(next_pc) == IF next_pc \in Terminal THEN "closed" ELSE "open"

\* Fault variant of LocateExhausted: `break` where the code raises.
LocateExhaustedBreaks(buf) ==
    [pc |-> "decode", err |-> "none", buffer |-> buf]

\* `raise RuntimeError("Could not find features array in GeoJSON")`: the
\* first loop read "" before it found the marker and a `[` after it.
LocateExhausted(buf) ==
    [pc |-> "raised", err |-> "RuntimeError", buffer |-> buf]

\* One pass of the first loop, `chunk` being what handle.read returned.
LocateIter(buf, chunk, n) ==
    IF chunk = <<>>
    THEN LocateExhausted(buf)
    ELSE LET b == buf \o chunk
             marker_index == Find(b, Marker, 1)
             array_start ==
                 IF marker_index # 0 THEN Find(b, <<"[">>, marker_index)
                 ELSE 0
         IN  IF array_start # 0
             THEN [pc |-> "decode", err |-> "none",
                   buffer |-> Drop(b, array_start + 1)]
             ELSE [pc |-> "locate", err |-> "none",
                   buffer |-> IF Len(b) > n THEN LastN(b, n) ELSE b]

\* Fault variant of Refill: `buffer = more`.
RefillReplaces(b, more) == more

\* `buffer += more` after a failed raw_decode.
Refill(b, more) == b \o more

\* Fault variant of EmptyBuffer: the end of the stream ends the sequence.
EmptyBufferEndsAtEof(b, more) ==
    IF more = <<>>
    THEN [pc |-> "done", err |-> "none", buffer |-> b,
          did_read |-> TRUE, out |-> <<>>]
    ELSE [pc |-> "decode", err |-> "none", buffer |-> b \o more,
          did_read |-> TRUE, out |-> <<>>]

\* `if not buffer: buffer += handle.read(CHUNK_SIZE); continue`
EmptyBuffer(b, more) ==
    [pc |-> "decode", err |-> "none", buffer |-> b \o more,
     did_read |-> TRUE, out |-> <<>>]

\* One pass of the second loop; `more` is what handle.read returns if this
\* pass calls it (did_read says whether it did).
DecodeIter(buf, more) ==
    LET b == Lstrip(buf)
        r == raw_decode(b)
    IN  IF b # <<>> /\ b[1] = "]"
        THEN [pc |-> "done", err |-> "none", buffer |-> b,
              did_read |-> FALSE, out |-> <<>>]
        ELSE IF b = <<>>
        THEN EmptyBuffer(b, more)
        ELSE IF ~r.ok
        THEN IF more = <<>>
             THEN [pc |-> "raised", err |-> "JSONDecodeError", buffer |-> b,
                   did_read |-> TRUE, out |-> <<>>]
             ELSE [pc |-> "decode", err |-> "none",
                   buffer |-> Refill(b, more),
                   did_read |-> TRUE, out |-> <<>>]
        ELSE [pc |-> "yield", err |-> "none",
              buffer |-> Drop(b, r.consumed + 1), did_read |-> FALSE,
              out |-> <<r.feature>>]

CountEof(chunk) ==
    IF chunk = <<>> THEN Min(eof_reads + 1, MaxEofReads) ELSE eof_reads

\* The consumer's first next(): the generator starts, opens the input.
Open ==
    /\ pc = "start"
    /\ pc' = "locate"
    /\ handle' = "open"
    /\ opens' = opens + 1
    /\ UNCHANGED <<stream, chunk_size, pos, buffer, err, yielded, eof_reads,
                   peak>>
    /\ UNCHANGED <<mvars, cvars>>

Locate ==
    /\ pc = "locate"
    /\ LET chunk == read(stream, pos, chunk_size)
           r == LocateIter(buffer, chunk, chunk_size)
       IN  /\ pos' = pos + Len(chunk)
           /\ eof_reads' = CountEof(chunk)
           /\ buffer' = r.buffer
           /\ pc' = r.pc
           /\ err' = r.err
           /\ handle' = HandleAfter(r.pc)
           /\ peak' = Len(buffer) + Len(chunk)     \* `buffer += chunk`
    /\ UNCHANGED <<stream, chunk_size, opens, yielded>>
    /\ UNCHANGED <<mvars, cvars>>

Decode ==
    /\ pc = "decode"
    /\ LET more == read(stream, pos, chunk_size)
           r == DecodeIter(buffer, more)
       IN  /\ pos' = IF r.did_read THEN pos + Len(more) ELSE pos
           /\ eof_reads' = IF r.did_read THEN CountEof(more) ELSE eof_reads
           /\ buffer' = r.buffer
           /\ pc' = r.pc
           /\ err' = r.err
           /\ yielded' = yielded \o r.out
           /\ handle' = HandleAfter(r.pc)
           /\ peak' = IF r.did_read /\ Len(r.buffer) > Len(buffer)
                      THEN Len(r.buffer) ELSE Len(buffer)
    /\ UNCHANGED <<stream, chunk_size, opens>>
    /\ UNCHANGED <<mvars, cvars>>

\* The consumer's next() on the suspended generator.
Resume ==
    /\ pc = "yield"
    /\ pc' = "decode"
    /\ UNCHANGED <<stream, chunk_size, pos, handle, opens, buffer, err,
                   yielded, eof_reads, peak>>
    /\ UNCHANGED <<mvars, cvars>>

\* The consumer drops the suspended generator (generator.close()):
\* GeneratorExit is raised at the yield and leaves the with block.
Close ==
    /\ pc = "yield"
    /\ pc' = "closed"
    /\ handle' = HandleAfter("closed")
    /\ UNCHANGED <<stream, chunk_size, pos, opens, buffer, err, yielded,
                   eof_reads, peak>>
    /\ UNCHANGED <<mvars, cvars>>


\* ===================================================================
\* Part II: the consumers of the decoded features
\*          (is_road, trim_properties and extract_roads.main).
\* ===================================================================
(***************************************************************************)
(* A decoded JSON value is a record [kind, text, fields]:                  *)
(*   kind   "null", "bool", "num", "str", "arr" or "obj";                  *)
(*   text   a string's characters, a number's digits, "true" or "false";   *)
(*   fields an object's key -> value map, an array's items (a sequence).   *)
(* Python's None is the value Null; a key a dict lacks is a key outside    *)
(* DOMAIN fields.                                                          *)
(***************************************************************************)

NoFields == [k \in {} |-> 0]

Null == [kind |-> "null", text |-> "", fields |-> NoFields]
Bool(b) == [kind |-> "bool", text |-> b, fields |-> NoFields]
Num(n) == [kind |-> "num", text |-> n, fields |-> NoFields]
Str(s) == [kind |-> "str", text |-> s, fields |-> NoFields]
Arr(items) == [kind |-> "arr", text |-> "", fields |-> items]
Obj(map) == [kind |-> "obj", text |-> "", fields |-> map]

\* bool(v) is False: None, false, 0, "", [] and {}.
Falsy(v) ==
    \/ v.kind = "null"
    \/ v.kind = "bool" /\ v.text = "false"
    \/ v.kind = "num" /\ v.text = "0"
    \/ v.kind = "str" /\ v.text = ""
    \/ v.kind \in {"arr", "obj"} /\ DOMAIN v.fields = {}

\* `v or {}`
OrEmptyDict(v) == IF Falsy(v) THEN Obj(NoFields) ELSE v

\* d.get(key) on a dict d.
dict_get(d, key) == IF key \in DOMAIN d.fields THEN d.fields[key] ELSE Null

\* key is a substring of text, for the keys and strings of the model.
KeyInString(key, text) ==
    \/ key = text
    \/ <<key, text>> \in {<<"highway", "old highway">>,
                          <<"name", "name:en">>, <<"name", "name_en">>}

\* `key in v`: "True", "False", or the exception raised.  A dict is asked
\* for the key, a str for the substring, a list for the item; a number or
\* a boolean is not iterable.
contains(v, key) ==
    IF v.kind = "obj"
    THEN IF key \in DOMAIN v.fields THEN "True" ELSE "False"
    ELSE IF v.kind = "str"
    THEN IF KeyInString(key, v.text) THEN "True" ELSE "False"
    ELSE IF v.kind = "arr"
    THEN IF \E i \in DOMAIN v.fields : v.fields[i] = Str(key)
         THEN "True" ELSE "False"
    ELSE "TypeError"

LineTypes == {"LineString", "MultiLineString"}

\* Fault variant of is_road: `props.get("highway")` as the test, a true
\* value instead of a present key.
is_road_truthy_highway(f) ==
    LET geometry == OrEmptyDict(dict_get(f, "geometry"))
        geometry_type == dict_get(geometry, "type")
        props == OrEmptyDict(dict_get(f, "properties"))
    IN  IF geometry.kind # "obj" THEN "AttributeError"
        ELSE IF ~(geometry_type.kind = "str" /\ geometry_type.text \in LineTypes)
        THEN "False"
        ELSE IF props.kind # "obj" THEN contains(props, "highway")
        ELSE IF Falsy(dict_get(props, "highway")) THEN "False" ELSE "True"

\* is_road(feature): "True", "False", or the exception raised.
is_road(f) ==
    LET geometry == OrEmptyDict(dict_get(f, "geometry"))
        geometry_type == dict_get(geometry, "type")
        props == OrEmptyDict(dict_get(f, "properties"))
    IN  IF geometry.kind # "obj" THEN "AttributeError"
        ELSE IF ~(geometry_type.kind = "str" /\ geometry_type.text \in LineTypes)
        THEN "False"
        ELSE contains(props, "highway")

KEEP_PROPERTIES == {"name", "name:en", "ref", "highway"}

\* Fault variant of trim_properties: the feature is copied with its
\* properties as they are.
trim_properties_untrimmed(f) == [exc |-> "none", value |-> f]

\* trim_properties(feature): [exc, value]; exc is the exception raised
\* ("none" if none), value the feature with its properties replaced.
trim_properties(f) ==
    LET props == OrEmptyDict(dict_get(f, "properties"))
        kept == IF props.kind = "obj"
                THEN KEEP_PROPERTIES \cap DOMAIN props.fields
                ELSE {}
        trimmed == Obj([k \in kept |-> props.fields[k]])
    IN  IF props.kind = "obj"
        THEN [exc |-> "none",
              value |-> Obj([k \in DOMAIN f.fields \cup {"properties"} |->
                               IF k = "properties" THEN trimmed
                               ELSE f.fields[k]])]
        ELSE IF props.kind \in {"num", "bool"}
        THEN [exc |-> "TypeError", value |-> Null]   \* `key in props`
        ELSE IF \E k \in KEEP_PROPERTIES : contains(props, k) = "True"
        THEN [exc |-> "TypeError", value |-> Null]   \* props[key]
        ELSE [exc |-> "none",
              value |-> Obj([k \in DOMAIN f.fields \cup {"properties"} |->
                               IF k = "properties" THEN Obj(NoFields)
                               ELSE f.fields[k]])]


\* -------------------------------------------------- the features main sees

LineString == Obj([k \in {"type"} |-> Str("LineString")])
MultiLineString == Obj([k \in {"type"} |-> Str("MultiLineString")])
Point == Obj([k \in {"type"} |-> Str("Point")])

GeometryValues ==
    {Null, Obj(NoFields), LineString, MultiLineString, Point,
     Obj([k \in {"type"} |-> Null]), Obj([k \in {"coordinates"} |-> Arr(<<>>)]),
     Str(""), Str("LineString"), Num("0"), Num("7"), Arr(<<>>),
     Arr(<<Str("LineString")>>), Bool("false"), Bool("true")}

Residential == Str("residential")

PropertiesValues ==
    {Null, Obj(NoFields),
     Obj([k \in {"highway"} |-> Residential]),
     Obj([k \in {"highway"} |-> Str("")]),
     Obj([k \in {"highway"} |-> Null]),
     Obj([k \in {"name"} |-> Str("Elm St")]),
     Obj([k \in {"highway", "name", "extra"} |->
            IF k = "highway" THEN Residential
            ELSE IF k = "name" THEN Str("Elm St") ELSE Num("1")]),
     Obj([k \in {"highway", "name", "name:en", "ref", "oneway"} |->
            IF k = "highway" THEN Residential
            ELSE IF k = "ref" THEN Str("A1")
            ELSE IF k = "oneway" THEN Bool("true") ELSE Str("Elm St")]),
     Str(""), Str("highway"), Str("old highway"), Str("Elm St"),
     Num("0"), Num("5"), Arr(<<>>), Arr(<<Str("highway")>>),
     Bool("false"), Bool("true")}

\* Stands for a key the feature does not have.
Missing == [kind |-> "missing", text |-> "", fields |-> NoFields]

\* A feature with the given geometry and properties; Missing leaves the
\* key out.
Feature(g, p) ==
    Obj([k \in {"type"}
               \cup (IF g.kind = "missing" THEN {} ELSE {"geometry"})
               \cup (IF p.kind = "missing" THEN {} ELSE {"properties"}) |->
           IF k = "type" THEN Str("Feature")
           ELSE IF k = "geometry" THEN g ELSE p])

FeatureSet ==
    {Feature(g, p) : g \in GeometryValues \cup {Missing},
                     p \in PropertiesValues \cup {Missing}}

\* The most features one run hands to main.
MaxFeatures == 2
\* The most command-line words (len(sys.argv)) tried.
MaxArgc == 3

\* ------------------------------------------------------ extract_roads.main

\* Fault variant of dump_line: the line replaces what was written.
dump_line_rewinds(out, value) == <<value>>

\* `json.dump(trimmed, sys.stdout, separators=(",", ":"))` and
\* `sys.stdout.write("\n")`: one more line on standard output.
dump_line(out, value) == Append(out, value)

\* `if len(sys.argv) < 2:` print the usage and return 1.
MainStart ==
    /\ mpc = "start"
    /\ mpc' = IF argc < 2 THEN "exit1" ELSE "loop"
    /\ UNCHANGED <<argc, feature, fetched, verdict, stdout, exc>>
    /\ UNCHANGED <<dvars, cvars>>

\* next() on the generator, seen from its consumer: the first next() runs
\* `with open_input(path) as handle:`, and the handle is closed when the
\* generator ends or raises (outcome "done" or "raised"), open while it is
\* suspended at the yield.
GeneratorNext(outcome) ==
    /\ opens' = IF handle = "unopened" THEN opens + 1 ELSE opens
    /\ handle' = HandleAfter(outcome)
    /\ UNCHANGED <<stream, chunk_size, pos, buffer, pc, err, yielded,
                   eof_reads, peak>>

\* `for feature in iter_features(input_path):` asks the generator for its
\* next value: it yields a feature, ends, or raises.
MainFetch ==
    /\ mpc = "loop"
    /\ \/ /\ fetched < MaxFeatures
          /\ \E f \in FeatureSet : feature' = f
          /\ fetched' = fetched + 1
          /\ verdict' = "none"
          /\ mpc' = "body"
          /\ GeneratorNext("yield")
          /\ UNCHANGED exc
       \/ /\ mpc' = "exit0"
          /\ GeneratorNext("done")
          /\ UNCHANGED <<feature, fetched, verdict, exc>>
       \/ /\ mpc' = "failed"
          /\ exc' \in {"RuntimeError", "JSONDecodeError"}
          /\ GeneratorNext("raised")
          /\ UNCHANGED <<feature, fetched, verdict>>
    /\ UNCHANGED <<argc, stdout>>
    /\ UNCHANGED cvars

\* The loop body: is_road, then trim_properties and json.dump of a road.
MainBody ==
    /\ mpc = "body"
    /\ LET road == is_road(feature)
           trimmed == trim_properties(feature)
       IN  /\ verdict' = road
           /\ IF road = "False"
              THEN /\ mpc' = "loop"
                   /\ UNCHANGED <<stdout, exc>>
              ELSE IF road # "True"
              THEN /\ mpc' = "failed"
                   /\ exc' = road
                   /\ UNCHANGED stdout
              ELSE IF trimmed.exc # "none"
              THEN /\ mpc' = "failed"
                   /\ exc' = trimmed.exc
                   /\ UNCHANGED stdout
              ELSE /\ mpc' = "loop"
                   /\ stdout' = dump_line(stdout, trimmed.value)
                   /\ UNCHANGED exc
    /\ UNCHANGED <<argc, feature, fetched>>
    /\ UNCHANGED <<dvars, cvars>>

\* ===================================================================
\* Part III: build_road_catalog.main.
\* ===================================================================
(***************************************************************************)
(* build_road_catalog.py has the iter_features and is_road of              *)
(* extract_roads.py, line for line.  The text of a string the catalog      *)
(* looks into (the value of name, name:en, name_en or ref) is a sequence   *)
(* of one-character strings, as in Part I.                                 *)
(***************************************************************************)

Text(chars) == [kind |-> "str", text |-> chars, fields |-> NoFields]

NAME_KEYS == <<"name", "name:en", "name_en">>

\* The characters str.strip() removes, of those the model writes.
Whitespace == {" ", "\t", "\n", "\r", "\f"}

\* The index of the last character not in chars, 0 when there is none.
LastNotIn(s, chars) ==
    LET stops == {i \in 1..Len(s) : s[i] \notin chars}
    IN  IF stops = {} THEN 0
        ELSE CHOOSE i \in stops : \A j \in stops : i >= j

\* value.strip()
strip(s) == SubSeq(s, FirstNotIn(s, Whitespace, 1), LastNotIn(s, Whitespace))

\* Fault variant of add_trimmed: the value is added as it is.
add_untrimmed(set, value) ==
    IF value.kind = "str" /\ strip(value.text) # <<>>
    THEN set \cup {value.text}
    ELSE set

\* `if isinstance(value, str): trimmed = value.strip();
\*  if trimmed: set.add(trimmed)`
add_trimmed(set, value) ==
    IF value.kind = "str" /\ strip(value.text) # <<>>
    THEN set \cup {strip(value.text)}
    ELSE set

\* `for key in NAME_KEYS:` from the i-th key on.
RECURSIVE add_names(_, _, _)
add_names(set, props, i) ==
    IF i > Len(NAME_KEYS) THEN set
    ELSE add_names(add_trimmed(set, dict_get(props, NAME_KEYS[i])), props,
                   i + 1)

\* The code points of the characters of the names and refs of the model.
CodePoint ==
    [c \in {" ", "1", "2", "A", "B", "M", "S", "a", "e", "i", "n", "r", "t"} |->
        CASE c = " " -> 32 [] c = "1" -> 49 [] c = "2" -> 50
          [] c = "A" -> 65 [] c = "B" -> 66 [] c = "M" -> 77 [] c = "S" -> 83
          [] c = "a" -> 97 [] c = "e" -> 101 [] c = "i" -> 105
          [] c = "n" -> 110 [] c = "r" -> 114 [] c = "t" -> 116]

\* a < b on str: at the first index where they differ the code point of a
\* is lower, or a is a proper prefix of b.
str_lt(a, b) ==
    \E i \in 1..(Min(Len(a), Len(b)) + 1) :
        /\ \A k \in 1..(i - 1) : a[k] = b[k]
        /\ IF i <= Len(a) /\ i <= Len(b)
           THEN CodePoint[a[i]] < CodePoint[b[i]]
           ELSE i > Len(a) /\ i <= Len(b)

\* Fault variant of sorted: the longest string first.
RECURSIVE sorted_by_length(_)
sorted_by_length(S) ==
    IF S = {} THEN <<>>
    ELSE LET m == CHOOSE x \in S : \A y \in S \ {x} :
                      Len(x) > Len(y) \/ (Len(x) = Len(y) /\ str_lt(x, y))
         IN  <<m>> \o sorted_by_length(S \ {m})

\* sorted(S) of a set of str.
RECURSIVE sorted(_)
sorted(S) ==
    IF S = {} THEN <<>>
    ELSE LET m == CHOOSE x \in S : \A y \in S \ {x} : str_lt(x, y)
         IN  <<m>> \o sorted(S \ {m})

\* The output file as the run has not touched it.
NoFile == [names |-> <<>>, refs |-> <<>>, written |-> FALSE]

\* ------------------------------------------- the features the catalog sees

Highway(map) ==
    Obj([k \in DOMAIN map \cup {"highway"} |->
           IF k = "highway" THEN Residential ELSE map[k]])

MainSt == <<"M", "a", "i", "n", " ", "S", "t">>
MainStreet == <<"M", "a", "i", "n", " ", "S", "t", "r", "e", "e", "t">>

\* name: " Main St ", ref: "A1"
NamedMainSt ==
    Highway([k \in {"name", "ref"} |->
               IF k = "name" THEN Text(<<" ">> \o MainSt \o <<" ">>)
               ELSE Text(<<"A", "1">>)])

\* name:en: "Main Street", ref: "A1"
NamedMainStreet ==
    Highway([k \in {"name:en", "ref"} |->
               IF k = "name:en" THEN Text(MainStreet)
               ELSE Text(<<"A", "1">>)])

CatalogProperties ==
    {Null, Obj(NoFields), Str("highway"), NamedMainSt, NamedMainStreet,
     Highway([k \in {"name", "name:en", "name_en"} |->
                IF k = "name" THEN Text(<<"\t">> \o MainSt)
                ELSE IF k = "name:en" THEN Text(MainStreet \o <<"\n">>)
                ELSE Text(<<"M", "a", "i", "n">>)]),
     Highway([k \in {"name_en", "ref"} |->
                IF k = "name_en" THEN Text(<<"B", "a", "r">>)
                ELSE Text(<<" ", "B", "2", "\r", "\n">>)]),
     Highway([k \in {"name", "name:en", "ref"} |->
                IF k = "name" THEN Text(<<" ", "\t">>)
                ELSE IF k = "name:en" THEN Text(<<>>) ELSE Text(<<" ">>)]),
     Highway([k \in {"name", "name:en", "name_en", "ref"} |->
                IF k = "name" THEN Num("5")
                ELSE IF k = "name:en" THEN Null
                ELSE IF k = "name_en" THEN Arr(<<Text(MainSt)>>)
                ELSE Bool("true")]),
     Obj([k \in {"name", "ref"} |->
            IF k = "name" THEN Text(<<"S", "e", "a">>)
            ELSE Text(<<"A", "2">>)])}

CatalogFeatures ==
    {Feature(g, p) : g \in {LineString, MultiLineString, Point,
                            Str("LineString")},
                     p \in CatalogProperties}

\* ------------------------------------------------- build_road_catalog.main

\* Fault variant of CatalogStart: the output file is opened for writing
\* (and so emptied) before the input is read.
CatalogStartOpensOutput ==
    /\ mpc = "start"
    /\ mpc' = IF argc < 3 THEN "exit1" ELSE "loop"
    /\ output_file' = IF argc < 3 THEN output_file
                      ELSE [names |-> <<>>, refs |-> <<>>, written |-> TRUE]
    /\ file_writes' = IF argc < 3 THEN file_writes ELSE file_writes + 1
    /\ UNCHANGED <<argc, feature, fetched, verdict, stdout, exc>>
    /\ UNCHANGED <<dvars, names, refs, seen>>

\* `if len(sys.argv) < 3:` print the usage and return 1.
CatalogStart ==
    /\ mpc = "start"
    /\ mpc' = IF argc < 3 THEN "exit1" ELSE "loop"
    /\ UNCHANGED <<argc, feature, fetched, verdict, stdout, exc>>
    /\ UNCHANGED <<dvars, cvars>>

\* `for feature in iter_features(input_path):`; after the loop main goes on
\* to write the catalog.
CatalogFetch ==
    /\ mpc = "loop"
    /\ \/ /\ fetched < MaxFeatures
          /\ \E f \in CatalogFeatures :
                 /\ feature' = f
                 /\ seen' = Append(seen, f)
          /\ fetched' = fetched + 1
          /\ verdict' = "none"
          /\ mpc' = "body"
          /\ GeneratorNext("yield")
          /\ UNCHANGED exc
       \/ /\ mpc' = "write"
          /\ GeneratorNext("done")
          /\ UNCHANGED <<feature, fetched, verdict, exc, seen>>
       \/ /\ mpc' = "failed"
          /\ exc' \in {"RuntimeError", "JSONDecodeError"}
          /\ GeneratorNext("raised")
          /\ UNCHANGED <<feature, fetched, verdict, seen>>
    /\ UNCHANGED <<argc, stdout>>
    /\ UNCHANGED <<names, refs, output_file, file_writes>>

\* The loop body: is_road, then the names and the ref of a road.
CatalogBody ==
    /\ mpc = "body"
    /\ LET road == is_road(feature)
           props == OrEmptyDict(dict_get(feature, "properties"))
       IN  /\ verdict' = road
           /\ IF road = "False"
              THEN /\ mpc' = "loop"
                   /\ UNCHANGED <<names, refs, exc>>
              ELSE IF road # "True"
              THEN /\ mpc' = "failed"
                   /\ exc' = road
                   /\ UNCHANGED <<names, refs>>
              ELSE IF props.kind # "obj"
              THEN /\ mpc' = "failed"
                   /\ exc' = "AttributeError"    \* props.get
                   /\ UNCHANGED <<names, refs>>
              ELSE /\ mpc' = "loop"
                   /\ names' = add_names(names, props, 1)
                   /\ refs' = add_trimmed(refs, dict_get(props, "ref"))
                   /\ UNCHANGED exc
    /\ UNCHANGED <<argc, feature, fetched, stdout>>
    /\ UNCHANGED <<dvars, output_file, file_writes, seen>>

\* `with open(output_path, "w", encoding="utf-8") as handle:` json.dump of
\* {"names": sorted(names), "refs": sorted(refs)} and a newline.  The file
\* holds the text of that value; open can fail (OSError), and then the
\* file is as it was.
CatalogWrite ==
    /\ mpc = "write"
    /\ \/ /\ output_file' = [names |-> sorted(names), refs |-> sorted(refs),
                             written |-> TRUE]
          /\ file_writes' = file_writes + 1
          /\ mpc' = "print"
          /\ UNCHANGED exc
       \/ /\ mpc' = "failed"
          /\ exc' = "OSError"
          /\ UNCHANGED <<output_file, file_writes>>
    /\ UNCHANGED <<argc, feature, fetched, verdict, stdout, names, refs,
                   seen>>
    /\ UNCHANGED dvars

\* `print(f"Wrote {len(names)} names and {len(refs)} refs to
\* {output_path}")`, then `return 0`.
CatalogPrint ==
    /\ mpc = "print"
    /\ stdout' = Append(stdout, [wrote_names |-> Cardinality(names),
                                 wrote_refs |-> Cardinality(refs)])
    /\ mpc' = "exit0"
    /\ UNCHANGED <<argc, feature, fetched, verdict, exc>>
    /\ UNCHANGED <<dvars, cvars>>

\* ------------------------------------------------------ the specifications

\* main is not run.
MainIdle ==
    /\ argc = 0
    /\ mpc = "idle"
    /\ feature = Null
    /\ fetched = 0
    /\ verdict = "none"
    /\ stdout = <<>>
    /\ exc = "none"

\* build_road_catalog.main is not run.
CatalogIdle ==
    /\ names = {}
    /\ refs = {}
    /\ output_file = NoFile
    /\ file_writes = 0
    /\ seen = <<>>

\* iter_features is not run step by step.
DecoderIdle ==
    /\ stream = <<>>
    /\ chunk_size = CHUNK_SIZE
    /\ pos = 0
    /\ handle = "unopened"
    /\ opens = 0
    /\ buffer = <<>>
    /\ pc = "idle"
    /\ err = "none"
    /\ yielded = <<>>
    /\ eof_reads = 0
    /\ peak = 0

\* The decoder, on every input and chunk size.
Init == DecoderInit /\ MainIdle /\ CatalogIdle

Next == Open \/ Locate \/ Decode \/ Resume \/ Close

Spec == Init /\ [][Next]_vars

\* extract_roads.main, on every feature sequence the decoder can hand it.
MainInit ==
    /\ DecoderIdle
    /\ CatalogIdle
    /\ argc \in 1..MaxArgc
    /\ mpc = "start"
    /\ feature = Null
    /\ fetched = 0
    /\ verdict = "none"
    /\ stdout = <<>>
    /\ exc = "none"

MainNext == MainStart \/ MainFetch \/ MainBody

MainSpec == MainInit /\ [][MainNext]_vars

\* build_road_catalog.main, on every feature sequence the decoder can hand it.
CatalogInit ==
    /\ DecoderIdle
    /\ CatalogIdle
    /\ argc \in 1..(MaxArgc + 1)
    /\ mpc = "start"
    /\ feature = Null
    /\ fetched = 0
    /\ verdict = "none"
    /\ stdout = <<>>
    /\ exc = "none"

CatalogNext ==
    CatalogStart \/ CatalogFetch \/ CatalogBody \/ CatalogWrite \/ CatalogPrint

CatalogSpec == CatalogInit /\ [][CatalogNext]_vars


\* ------------------------------------------------ reference definitions
(***************************************************************************)
(* What a document holds, read off the whole text at once.  These are the  *)
(* yardstick the decoder is measured against; they model no code.          *)
(***************************************************************************)

\* The index after the first `[` that follows the first marker, 0 if none.
ArrayStart(s) ==
    LET m == Find(s, Marker, 1)
        a == IF m # 0 THEN Find(s, <<"[">>, m + Len(Marker)) ELSE 0
    IN  IF a # 0 THEN a + 1 ELSE 0

HasFeaturesArray(s) == ArrayStart(s) # 0

\* The elements of the array whose text (after its `[`) is `text`, and how
\* the array ends: "closed" by `]`, "truncated" at an element boundary,
\* "incomplete" inside a value, "malformed" at a value that is not JSON.
RECURSIVE Elements(_)
Elements(text) ==
    LET b == Lstrip(text)
        r == scan_once(b, 1)
    IN  IF b = <<>> THEN [vals |-> <<>>, end |-> "truncated"]
        ELSE IF b[1] = "]" THEN [vals |-> <<>>, end |-> "closed"]
        ELSE IF r.st = "eof" THEN [vals |-> <<>>, end |-> "incomplete"]
        ELSE IF r.st = "bad" THEN [vals |-> <<>>, end |-> "malformed"]
        ELSE LET rest == Elements(Drop(b, r.end))
             IN  [vals |-> <<Decoded(SubSeq(b, 1, r.end - 1), 1, FALSE)>>
                               \o rest.vals,
                  end |-> rest.end]

Features(s) == Elements(Drop(s, ArrayStart(s)))

\* A valid input: the whole stream is one JSON value, and it has a features
\* array.
ValidInput(s) ==
    /\ scan_once(s, 1).st = "ok"
    /\ scan_once(s, 1).end = Len(s) + 1
    /\ HasFeaturesArray(s)
    /\ Features(s).end = "closed"

\* The text a decode pass parses: the buffer after the strip.
Stripped == Lstrip(buffer)

\* ------------------------------------------------------------ the claims

\* C1: for every valid input with an N-element features array and every
\* chunk size, the decoder ends normally having yielded exactly the N
\* elements, in order.
C1_ChunkSizeIndependence ==
    (pc \in {"done", "raised"} /\ ValidInput(stream))
        => (pc = "done" /\ yielded = Features(stream).vals)

C2_PassProgresses ==
    pc \in {"locate", "decode"}
        => (pos' > pos \/ Len(yielded') > Len(yielded) \/ pc' \in Terminal)

\* C2: the decoder terminates after finitely many reads: every pass of
\* either loop reads at least one character, yields a value or ends the
\* run, so no pass leaves the decoder where it was.
C2_EveryPassProgresses == [][C2_PassProgresses]_vars

C3_BoundaryPassRaises ==
    (pc = "decode" /\ Stripped = <<>> /\ pos = Len(stream)) => pc' = "raised"

\* C3: in the decode phase, an empty stripped buffer with the reader
\* exhausted is an error: the pass raises instead of ending or continuing.
C3_TruncatedAtBoundaryRaises == [][C3_BoundaryPassRaises]_vars

MalformedAtFront ==
    /\ Stripped # <<>>
    /\ Stripped[1] # "]"
    /\ scan_once(Stripped, 1).st = "bad"

C4_MalformedPassRaises ==
    (pc = "decode" /\ MalformedAtFront)
        => (pc' = "raised" /\ pos' = pos /\ Len(buffer') <= Len(buffer))

\* C4: when the text at the front of the buffer is malformed JSON (no
\* continuation makes it a value), the pass raises at once: no chunk is
\* read and the buffer does not grow.
C4_MalformedRaisesAtOnce == [][C4_MalformedPassRaises]_vars

C5_ExhaustedLocateRaises ==
    (pc = "locate" /\ pos = Len(stream))
        => (pc' = "raised" /\ err' = "RuntimeError" /\ yielded' = <<>>)

C5_NoArrayEndsInStructureError ==
    (pc \in {"done", "raised"} /\ ~HasFeaturesArray(stream))
        => (pc = "raised" /\ err = "RuntimeError" /\ yielded = <<>>)

\* C5: when the stream is exhausted in the locate phase the decoder raises
\* the structure error with nothing yielded; a stream without the marker
\* and a following `[` never ends any other way.
C5_StructureError ==
    [][C5_ExhaustedLocateRaises]_vars /\ []C5_NoArrayEndsInStructureError

C5_Witness ==
    /\ pc = "raised"
    /\ err = "RuntimeError"
    /\ stream = NoFeatures
    /\ pos = Len(stream)

\* The marker is in the buffer.
MarkerBuffered(buf) == Find(buf, Marker, 1) # 0

C6_LocatePassFindsArray ==
    (pc = "locate" /\ HasFeaturesArray(stream) /\ chunk_size >= Len(Marker))
        => (/\ pc' # "raised"
            /\ pc' = "decode" => pos' - Len(buffer') + 1 = ArrayStart(stream)
            /\ (MarkerBuffered(buffer) /\ pc' = "locate") => MarkerBuffered(buffer'))

\* C6: when the marker is followed, after any gap, by `[`, the locator
\* succeeds and hands over a buffer that begins right after that `[`, and
\* a marker once buffered stays buffered until the `[` is found.  Stated
\* for the chunk sizes that can hold the whole marker, so that a failure
\* is one of the gap and not of a marker cut in pieces.
C6_LocatesNonAdjacentBracket == [][C6_LocatePassFindsArray]_vars

C7_EndsOnlyAtBracket ==
    (pc # "done" /\ pc' = "done")
        => (/\ Stripped # <<>>
            /\ Stripped[1] = "]"
            /\ pos' = pos
            /\ yielded' = yielded)

C7_DoneIsFinal ==
    pc = "done" => (pc' = "done" /\ pos' = pos /\ yielded' = yielded)

C7_DoneAtBracket == pc = "done" => (buffer # <<>> /\ buffer[1] = "]")

\* C7: the sequence ends normally only from a pass whose stripped buffer
\* starts with `]`; that pass reads nothing and yields nothing, and after
\* it nothing is read or yielded.
C7_OnlyNormalEnd ==
    /\ [][C7_EndsOnlyAtBracket]_vars
    /\ []C7_DoneAtBracket
    /\ [][C7_DoneIsFinal]_vars

\* The array closed while text was still unread and buffered behind the `]`.
C7_Witness ==
    /\ pc = "done"
    /\ pos < Len(stream)
    /\ Len(buffer) > 1
    /\ Len(yielded) = 1

C8_TruncatedPassRaises ==
    (/\ pc = "decode"
     /\ Stripped # <<>>
     /\ scan_once(Stripped, 1).st = "eof"
     /\ pos = Len(stream))
        => (pc' = "raised" /\ err' = "JSONDecodeError" /\ yielded' = yielded)

C8_YieldedBeforeTruncation ==
    (pc = "raised" /\ err = "JSONDecodeError" /\ scan_once(buffer, 1).st = "eof")
        => (/\ pos = Len(stream)
            /\ Features(stream).end = "incomplete"
            /\ yielded = Features(stream).vals)

\* C8: when the reader is exhausted while the buffer holds an incomplete
\* value, the decoder raises the parse error, having yielded exactly the
\* complete features before the truncated one, in order.
C8_TruncatedMidFeature ==
    [][C8_TruncatedPassRaises]_vars /\ []C8_YieldedBeforeTruncation

C8_Witness ==
    /\ pc = "raised"
    /\ err = "JSONDecodeError"
    /\ scan_once(buffer, 1).st = "eof"
    /\ Len(yielded) = 1
    /\ chunk_size < Len(buffer)

\* C9: at most one input stream is ever opened, and in every terminal
\* state (normal end, raised error, generator closed early) it is closed.
C9_StreamReleased ==
    /\ opens <= 1
    /\ (handle = "unopened") = (opens = 0)
    /\ (pc \in Terminal => handle = "closed")
    /\ (pc \in {"locate", "decode", "yield"} => handle = "open")

C9_Witness ==
    /\ pc = "closed"
    /\ handle = "closed"
    /\ opens = 1
    /\ pos < Len(stream)


\* The value under `key` of a feature is missing, falsy or an object: what
\* `feature.get(key) or {}` turns into a dict.
DictOrNothing(f, key) ==
    \/ key \notin DOMAIN f.fields
    \/ Falsy(f.fields[key])
    \/ f.fields[key].kind = "obj"

\* geometry.type is LineString or MultiLineString.
HasLineGeometry(f) ==
    /\ "geometry" \in DOMAIN f.fields
    /\ f.fields["geometry"].kind = "obj"
    /\ "type" \in DOMAIN f.fields["geometry"].fields
    /\ f.fields["geometry"].fields["type"] \in {Str("LineString"), Str("MultiLineString")}

\* The properties map has the key highway.
HasHighwayKey(f) ==
    /\ "properties" \in DOMAIN f.fields
    /\ f.fields["properties"].kind = "obj"
    /\ "highway" \in DOMAIN f.fields["properties"].fields

C10_BodyFollowsPredicate ==
    (/\ mpc = "body"
     /\ DictOrNothing(feature, "geometry")
     /\ DictOrNothing(feature, "properties") \/ ~HasLineGeometry(feature))
        => (/\ verdict' = IF HasLineGeometry(feature) /\ HasHighwayKey(feature)
                          THEN "True" ELSE "False"
            /\ (Len(stdout') = Len(stdout) + 1)
                   = (HasLineGeometry(feature) /\ HasHighwayKey(feature))
            /\ Len(stdout') = Len(stdout) + 1
                   => stdout'[Len(stdout')].fields["geometry"] = feature.fields["geometry"])

\* C10: is_road(feature) is true exactly when geometry.type is LineString
\* or MultiLineString and the properties map has the key highway, whatever
\* its value, and main emits a feature exactly when is_road is true of it.
\* Stated for the features whose geometry and properties are each missing,
\* falsy or an object, and for every feature without a line geometry
\* whatever its properties.
C10_RoadPredicate == [][C10_BodyFollowsPredicate]_vars

\* A MultiLineString with highway: "" was emitted.
C10_Witness ==
    /\ mpc = "loop"
    /\ feature = Feature(MultiLineString, Obj([k \in {"highway"} |-> Str("")]))
    /\ verdict = "True"
    /\ Len(stdout) = 1
    /\ stdout[1].fields["properties"] = Obj([k \in {"highway"} |-> Str("")])


\* The value under `key` of a feature is missing or is not a JSON object.
NotAnObject(f, key) ==
    \/ key \notin DOMAIN f.fields
    \/ f.fields[key].kind # "obj"

C11_BodyTreatsAsAbsent ==
    (/\ mpc = "body"
     /\ NotAnObject(feature, "geometry") \/ NotAnObject(feature, "properties"))
        => (/\ verdict' = "False"
            /\ mpc' = "loop"
            /\ exc' = "none"
            /\ stdout' = stdout)

\* C11: a feature whose geometry or properties is missing or is any
\* non-object value (null, number, boolean, string, array) is handled as if
\* the field were absent: is_road and the loop body raise nothing, and the
\* feature, which lacks a line geometry or a properties map, is not
\* classified as a road and not emitted.
C11_NonObjectIsAbsent == [][C11_BodyTreatsAsAbsent]_vars


\* The kept properties of the feature main holds.
KeptKeys == KEEP_PROPERTIES \cap DOMAIN feature.fields["properties"].fields

\* The line this step wrote.
Emitted == stdout'[Len(stdout')]

C12_EmittedIsTrimmed ==
    (mpc = "body" /\ Len(stdout') = Len(stdout) + 1)
        => (/\ "properties" \in DOMAIN feature.fields
            /\ feature.fields["properties"].kind = "obj"
            /\ DOMAIN Emitted.fields = DOMAIN feature.fields
            /\ \A k \in DOMAIN feature.fields \ {"properties"} :
                   Emitted.fields[k] = feature.fields[k]
            /\ Emitted.fields["properties"].kind = "obj"
            /\ DOMAIN Emitted.fields["properties"].fields = KeptKeys
            /\ \A k \in KeptKeys :
                   Emitted.fields["properties"].fields[k]
                       = feature.fields["properties"].fields[k])

\* C12: every feature extract_roads emits has as properties exactly the
\* keys name, name:en, ref and highway that the original properties had,
\* each with its original value and no other key, and every other
\* top-level field (type, geometry) as in the original.
C12_PropertyTrimming == [][C12_EmittedIsTrimmed]_vars

\* A road with the four kept properties and oneway was emitted without
\* oneway.
C12_Witness ==
    /\ mpc = "loop"
    /\ verdict = "True"
    /\ Len(stdout) = 1
    /\ DOMAIN feature.fields["properties"].fields
           = {"highway", "name", "name:en", "ref", "oneway"}
    /\ DOMAIN stdout[1].fields["properties"].fields
           = {"highway", "name", "name:en", "ref"}
    /\ stdout[1].fields["properties"].fields["ref"] = Str("A1")
    /\ stdout[1].fields["geometry"] = LineString


\* The non-empty texts left of s when the whitespace at its two ends is
\* taken away: the slice s[i..j] that starts and ends with a character that
\* is not whitespace, with whitespace only before i and after j.
TrimmedForms(s) ==
    {SubSeq(s, ij[1], ij[2]) :
        ij \in {p \in (1..Len(s)) \X (1..Len(s)) :
                   /\ p[1] <= p[2]
                   /\ s[p[1]] \notin Whitespace
                   /\ s[p[2]] \notin Whitespace
                   /\ \A k \in 1..Len(s) :
                          (k < p[1] \/ k > p[2]) => s[k] \in Whitespace}}

\* What a feature gives the catalog under the given keys: the trimmed forms
\* of its string values, if it is a road.
RoadContribution(f, keys) ==
    IF HasLineGeometry(f) /\ HasHighwayKey(f)
    THEN UNION {TrimmedForms(f.fields["properties"].fields[k].text) :
                  k \in {k \in keys \cap DOMAIN f.fields["properties"].fields :
                            f.fields["properties"].fields[k].kind = "str"}}
    ELSE {}

C13_BodyAggregates ==
    IF mpc = "body"
    THEN /\ names' = names
                \cup RoadContribution(feature, {"name", "name:en", "name_en"})
         /\ refs' = refs \cup RoadContribution(feature, {"ref"})
    ELSE UNCHANGED <<names, refs>>

\* seq is strictly ascending and has exactly the elements of set.
AscendingListOf(seq, set) ==
    /\ {seq[i] : i \in 1..Len(seq)} = set
    /\ \A i \in 1..Len(seq) : \A j \in 1..Len(seq) :
           i < j => str_lt(seq[i], seq[j])

\* The features of `seen` the loop body has been through.
Aggregated ==
    IF mpc = "body" THEN SubSeq(seen, 1, Len(seen) - 1) ELSE seen

C13_PrefixAggregated ==
    /\ names = UNION {RoadContribution(Aggregated[i],
                                       {"name", "name:en", "name_en"}) :
                        i \in 1..Len(Aggregated)}
    /\ refs = UNION {RoadContribution(Aggregated[i], {"ref"}) :
                       i \in 1..Len(Aggregated)}
    /\ output_file.written
           => /\ AscendingListOf(output_file.names, names)
              /\ AscendingListOf(output_file.refs, refs)

\* C13: after any prefix of the features, names and refs are what the
\* road features of the prefix give, and only the loop body changes them:
\* a road feature adds to names the non-empty whitespace-trimmed form of
\* each of its string values under name, name:en and name_en (every key on
\* its own) and to refs that of its ref; a feature that is not a road, a
\* value that is not a string and a string of whitespace add nothing.  The
\* names and refs written to the file are strictly ascending and are these
\* sets.
C13_CatalogInvariant ==
    [][C13_BodyAggregates]_vars /\ [](C13_PrefixAggregated)

\* One feature gave three names under its three keys, and they were
\* written in ascending order.
C13_Witness ==
    /\ output_file.written
    /\ fetched = 1
    /\ output_file.names = <<<<"M", "a", "i", "n">>, MainSt, MainStreet>>
    /\ DOMAIN feature.fields["properties"].fields
           = {"highway", "name", "name:en", "name_en"}


\* The run took the two road features of the example and wrote the file.
C14_ExampleAggregated ==
    /\ output_file.written
    /\ seen = <<Feature(LineString, NamedMainSt),
                Feature(LineString, NamedMainStreet)>>

\* C14 as stated: the two road features name " Main St ", ref "A1" and
\* name:en "Main Street", ref "A1" give the catalog names
\* ["Main Street", "Main St"] and refs ["A1"].
C14_ExampleAsStated ==
    C14_ExampleAggregated
        => /\ output_file.names = <<MainStreet, MainSt>>
           /\ output_file.refs = <<<<"A", "1">>>>

\* C14, amended: the two road features name " Main St ", ref "A1" and
\* name:en "Main Street", ref "A1" give the catalog names
\* ["Main St", "Main Street"], in ascending order, and refs ["A1"].
C14_Example ==
    C14_ExampleAggregated
        => /\ output_file.names = <<MainSt, MainStreet>>
           /\ output_file.refs = <<<<"A", "1">>>>

C14_Witness ==
    /\ C14_ExampleAggregated
    /\ mpc = "exit0"
    /\ names = {MainSt, MainStreet}
    /\ refs = {<<"A", "1">>}


C15_StepStreams ==
    /\ mpc # "failed"
    /\ IF mpc = "body" /\ HasLineGeometry(feature) /\ HasHighwayKey(feature)
       THEN /\ Len(stdout') = Len(stdout) + 1
            /\ SubSeq(stdout', 1, Len(stdout)) = stdout
            /\ stdout'[Len(stdout')].fields["geometry"]
                   = feature.fields["geometry"]
            /\ mpc' = "loop"
       ELSE stdout' = stdout

\* C15: extract_roads writes its lines as it goes and never takes one
\* back: the loop body of a road feature appends that feature's line to
\* what is written and goes on, every other step, the one in which the
\* decoder raises included, leaves what is written as it is, and no step
\* follows a failure.  So the lines are those of the road features in input
\* order, one each, and a run ended by a decode error has written the
\* lines of the road features before the failure and none after.
C15_StreamingSink == [][C15_StepStreams]_vars

\* Two roads were written, then the decoder raised.
C15_Witness ==
    /\ mpc = "failed"
    /\ exc = "JSONDecodeError"
    /\ fetched = 2
    /\ Len(stdout) = 2
    /\ stdout[1] # stdout[2]
    /\ stdout[2].fields["geometry"] = feature.fields["geometry"]


\* main returned 1 having opened no input and written nothing.
UsageExit ==
    /\ mpc' = "exit1"
    /\ opens' = 0
    /\ stdout' = <<>>
    /\ output_file' = NoFile

C16_ExtractChecksCount == (mpc = "start" /\ argc # 2) => UsageExit

C16_CatalogChecksCount == (mpc = "start" /\ argc # 3) => UsageExit

\* C16: extract_roads takes exactly one argument (len(sys.argv) = 2): with
\* any other count main reports the usage and returns 1, having opened no
\* input stream and written nothing.
C16_ExtractUsage == [][C16_ExtractChecksCount]_vars

\* C16, for build_road_catalog, which takes exactly two arguments
\* (len(sys.argv) = 3).
C16_CatalogUsage == [][C16_CatalogChecksCount]_vars


\* How many characters of the stream lie before the buffer.
BufferStart == pos - Len(buffer)

\* What this step took off the front of the buffer.
Removed == SubSeq(stream, BufferStart + 1, BufferStart')

C17_BufferIsSlice ==
    /\ 0 <= BufferStart
    /\ pos <= Len(stream)
    /\ buffer = SubSeq(stream, BufferStart + 1, pos)

C17_StepKeepsSlice ==
    /\ pos' >= pos
    /\ BufferStart' >= BufferStart
    /\ pc = "decode" /\ pc' # "yield"
           => \A i \in 1..Len(Removed) : Removed[i] \in StripChars
    /\ pc = "decode" /\ pc' = "yield"
           => LET value == Lstrip(Removed)
              IN  /\ scan_once(value, 1).st = "ok"
                  /\ scan_once(value, 1).end = Len(value) + 1

\* C17: in every state of iter_features the buffer is the slice of the
\* stream that ends at the read position; a step never moves the read
\* position back, adds at the back of the buffer what it read and takes
\* characters off its front only.  A
\* decode pass takes off separators only, and with them, when it yields,
\* the text of the one value it yields: the buffer starts at the first
\* character not yet consumed.
C17_BufferInvariant == [][C17_StepKeepsSlice]_vars /\ [](C17_BufferIsSlice)

\* After a first feature and a refill the buffer is a slice from the middle
\* of the stream.
C17_Witness ==
    /\ pc = "decode"
    /\ Len(yielded) = 1
    /\ 0 < BufferStart
    /\ 0 < Len(buffer)
    /\ chunk_size < Len(buffer)
    /\ pos < Len(stream)


\* The encoded lengths of the elements of the array whose text (after its
\* `[`) is `text`.
RECURSIVE ElementLengths(_)
ElementLengths(text) ==
    LET b == Lstrip(text)
        r == scan_once(b, 1)
    IN  IF b = <<>> \/ b[1] = "]" \/ r.st # "ok" THEN {}
        ELSE {r.end - 1} \cup ElementLengths(Drop(b, r.end))

\* The encoded length of the largest feature of the stream, 0 if it has
\* none.
LargestFeature(s) ==
    LET lengths == ElementLengths(Drop(s, ArrayStart(s)))
    IN  IF lengths = {} THEN 0
        ELSE CHOOSE n \in lengths : \A m \in lengths : n >= m

\* C18: for every valid input, the buffer is at no point of iter_features
\* (between two statements of a pass as well as between passes) longer
\* than one chunk size plus the encoded length of the largest feature of
\* the input.
C18_MemoryBound ==
    ValidInput(stream)
        => /\ Len(buffer) <= chunk_size + LargestFeature(stream)
           /\ peak <= chunk_size + LargestFeature(stream)


\* Where the first marker of the stream ends, 0 if it has none.
MarkerEnd ==
    LET m == Find(stream, Marker, 1)
    IN  IF m = 0 THEN 0 ELSE m + Len(Marker) - 1

\* The locate pass about to run reads the last character of the marker.
ReadCompletesMarker ==
    /\ pc = "locate"
    /\ MarkerEnd # 0
    /\ pos < MarkerEnd
    /\ MarkerEnd <= pos + chunk_size

\* C19: with a chunk size of at least the marker's length, the trimming of
\* the locate loop never loses a marker: whatever the preamble before it
\* and wherever the chunk boundaries cut it, the scan of the pass that
\* reads the marker's last character (the buffer kept so far plus that
\* chunk) finds the marker.
C19_TrimKeepsMarker ==
    (ReadCompletesMarker /\ chunk_size >= Len(Marker))
        => MarkerBuffered(buffer \o read(stream, pos, chunk_size))

\* The buffer has been trimmed, it ends inside the marker, and the next
\* read completes the marker.
C19_Witness ==
    /\ ReadCompletesMarker
    /\ chunk_size >= Len(Marker)
    /\ chunk_size < CHUNK_SIZE
    /\ BufferStart > 0
    /\ MarkerEnd - Len(Marker) < pos
    /\ Len(buffer) = chunk_size


C20_WriteFollowsNormalEnd ==
    (output_file' # output_file \/ file_writes' # file_writes)
        => /\ mpc = "write"
           /\ handle = "closed"
           /\ exc = "none"
           /\ file_writes' = 1
           /\ stdout = <<>>
           /\ output_file'.written

C20_FileAndSummary ==
    /\ mpc = "failed" => output_file = NoFile /\ file_writes = 0 /\ stdout = <<>>
    /\ stdout # <<>> => output_file.written /\ file_writes = 1
    /\ mpc = "exit0" => file_writes = 1 /\ Len(stdout) = 1
    /\ Len(stdout) <= 1

\* C20: build_road_catalog opens its output file only in the step after
\* iter_features ended normally (its handle closed, no exception), and
\* only once.  A run that fails, by an error of the decoder or any other,
\* has not touched the file and has printed no summary; a run that returns
\* 0 has written the file once and then printed one summary line.
C20_OutputOnlyOnSuccess ==
    [][C20_WriteFollowsNormalEnd]_vars /\ [](C20_FileAndSummary)

\* Two features were aggregated, then the decoder raised: no file and no
\* summary.
C20_Witness ==
    /\ mpc = "failed"
    /\ exc = "JSONDecodeError"
    /\ names # {}
    /\ fetched = 2
    /\ output_file = NoFile

====
